---- MODULE Spec2Model ----
(***************************************************************************)
(* Model of the search and tagging core of Rag-Navigator                   *)
(* (src/utils/searchService.ts).                                           *)
(*                                                                         *)
(* Strings are sequences of one-character strings, positions are 0-based   *)
(* as in JavaScript (character at position i of s is s[i + 1]).            *)
(* A query term is compiled by `new RegExp(term, 'g')`, so the model       *)
(* carries the regular-expression reading of the characters that can occur *)
(* in a term: a letter matches itself, "." matches any character, "*"      *)
(* repeats the preceding atom and is a SyntaxError without one.            *)
(***************************************************************************)
EXTENDS Integers, Sequences, FiniteSets, TLC

VARIABLES
    documents,      \* argument `documents` of searchDocuments
    query,          \* argument `query`
    tags,           \* argument `tags` (the tag filter, a sequence of names)
    store,          \* localStorage records doc_tags_<id>, by document id
    pc,             \* position of the call of searchDocuments
    queryTerms,     \* local queryTerms
    docIdx,         \* index of the forEach over documents (1-based)
    termIdx,        \* index of the forEach over queryTerms (1-based)
    lastIndex,      \* regex.lastIndex of the current term's RegExp
    matchCount,     \* local matchCount of the current document
    matchPositions, \* local matchPositions of the current document
    results,        \* local results; the returned value when pc = "done"
    storeReads,     \* ids whose record was read from localStorage by the call
    matcherRan,     \* TRUE once a RegExp was built for a term
    docLog,         \* per visited document: tag decision and final matchCount
    hText,          \* argument `text` of highlightKeywords
    hQuery,         \* argument `query` of highlightKeywords
    hpc,            \* position of the call of highlightKeywords
    hTerms,         \* its local queryTerms
    hIdx,           \* index of its forEach over queryTerms (1-based)
    highlightedText,\* its local highlightedText; the value returned
    medium,         \* whether localStorage raises on getItem or on setItem
    tcall,          \* the last call of a tag operation and its outcome
    recorded,       \* ids of the tags written to some record so far
    created,        \* the tags returned by createTag, in call order
    displayed,      \* per result, the snippet markup the sidebar renders
    racePc,         \* per concurrent tagDocument call: its position
    raceTags,       \* per concurrent tagDocument call: its local `tags`
    raceArgs,       \* the docId and the tag of each concurrent call
    overlapped,     \* TRUE once a call read while another was between its
                    \* read and its write
    uiDocuments,    \* App.documents, the `documents` prop of the sidebar
    uiQuery,        \* SearchBar.query
    selectedTags,   \* SearchBar.selectedTags
    searchResults,  \* Sidebar.searchResults, the results on display
    uploads,        \* number of documents uploaded so far
    eventBuffer,    \* AnalyticsServiceClass.eventBuffer
    analyticsData,  \* what localStorage holds under 'gemini-rag-analytics'
    tracked,        \* the events tracked since the last clearData
    eventCount,     \* number of trackEvent calls so far
    appDocuments,   \* App.documents, as seen by the session handling
    messages,       \* App.messages
    isTyping,       \* App.isTyping
    stream,         \* the summarization request in flight, if any
    saveTimer,      \* the debounce timer of the auto-save effect
    session,        \* what localStorage holds under session_<user>_current
    cleared,        \* TRUE from a successful Clear History until the next
                    \* upload or request
    messageCount    \* number of message ids generated so far

searchVars == <<documents, query, tags, store, pc, queryTerms, docIdx, termIdx,
                lastIndex, matchCount, matchPositions, results, storeReads,
                matcherRan, docLog>>

highlightVars == <<hText, hQuery, hpc, hTerms, hIdx, highlightedText>>

tagVars == <<medium, tcall, recorded, created>>

raceVars == <<racePc, raceTags, raceArgs, overlapped>>

sidebarVars == <<uiDocuments, uiQuery, selectedTags, searchResults, uploads>>

analyticsVars == <<eventBuffer, analyticsData, tracked, eventCount>>

appVars == <<appDocuments, messages, isTyping, stream, saveTimer, session,
             cleared, messageCount>>

otherVars == <<raceVars, sidebarVars, analyticsVars, appVars>>

vars == <<searchVars, highlightVars, tagVars, displayed, otherVars>>

----------------------------------------------------------------------------
(* Bounds of the explored inputs *)

MaxDocs == 2          \* documents in a collection (SpecRank, SpecTags)
MaxRunLen == 5        \* length of a content made of one repeated letter
MaxContentLen == 2    \* length of a content over ContentChars (Spec)
MaxQueryLen == 3      \* length of a query (Spec)
MaxHighlightQueryLen == 2 \* length of a query given to highlightKeywords
MaxRankQueryLen == 2  \* length of a query in SpecRank
MaxTagQueryLen == 1   \* length of a query in SpecTags
MaxTextLen == 2       \* length of a text given to highlightKeywords
MaxCreated == 2       \* calls of createTag
LongLen == 200        \* length of a content longer than a snippet window
MaxEvents == 10       \* trackEvent calls in a run (SpecAnalytics)
MaxAppDocs == 2       \* documents uploaded in a run (SpecApp)
MaxMessages == 4      \* message ids generated in a run (SpecApp)

ContentChars == {"a", "A", "b", " "}
QueryChars == {"a", "A", " ", ".", "*"}

\* Above the largest matchCount a scan that consumes a character per match
\* can reach; a scan that goes on beyond it is followed no further.
MaxMatchCount == MaxQueryLen * (MaxRunLen + MaxContentLen) + 1

----------------------------------------------------------------------------
(* Strings *)

Strings(chars, n) == UNION {[1..k -> chars] : k \in 0..n}

Run(c, n) == [i \in 1..n |-> c]

Min(a, b) == IF a < b THEN a ELSE b
Max(a, b) == IF a > b THEN a ELSE b

IsWhitespace(c) == c = " "

\* String.prototype.toLowerCase on one character
LowerChar(c) == IF c = "A" THEN "a" ELSE IF c = "B" THEN "b" ELSE c

ToLowerCase(s) == [i \in 1..Len(s) |-> LowerChar(s[i])]

\* s.substring(from, to) with 0 <= from, to <= s.length; the two indices
\* are swapped when from > to
Substring(s, from, to) ==
    IF from = to THEN <<>>
    ELSE IF from > to THEN SubSeq(s, to + 1, from)
    ELSE SubSeq(s, from + 1, to)

RECURSIVE TrimStart(_)
TrimStart(s) ==
    IF s # <<>> /\ IsWhitespace(Head(s)) THEN TrimStart(Tail(s)) ELSE s

RECURSIVE TrimEnd(_)
TrimEnd(s) ==
    IF s # <<>> /\ IsWhitespace(s[Len(s)])
    THEN TrimEnd(SubSeq(s, 1, Len(s) - 1)) ELSE s

\* String.prototype.trim
Trim(s) == TrimEnd(TrimStart(s))

\* Variant: `!query`, the test without the trim.
IsBlank_NoTrim(s) == s = <<>>

\* `!query.trim()`: the trimmed query is the empty string
IsBlank(s) == Trim(s) = <<>>

\* s.split(/\s+/): the pieces between maximal runs of whitespace, an empty
\* piece included where the string starts or ends with whitespace.
RECURSIVE SplitFrom(_, _, _)
SplitFrom(s, i, piece) ==
    IF i > Len(s) THEN <<piece>>
    ELSE IF IsWhitespace(s[i])
         THEN IF i > 1 /\ IsWhitespace(s[i - 1])
              THEN SplitFrom(s, i + 1, piece)
              ELSE <<piece>> \o SplitFrom(s, i + 1, <<>>)
         ELSE SplitFrom(s, i + 1, Append(piece, s[i]))

SplitWhitespace(s) == SplitFrom(s, 1, <<>>)

\* query.toLowerCase().split(/\s+/).filter(t => t.length > 0)
Tokenize(q) == SelectSeq(SplitWhitespace(ToLowerCase(q)), LAMBDA t : Len(t) > 0)

----------------------------------------------------------------------------
(* Regular expressions built from a term *)

SyntaxError == [error |-> TRUE, atoms |-> <<>>]
NoMatch == [index |-> -1, end |-> -1]

\* The pattern of `new RegExp(term, flags)`: a sequence of atoms, each a
\* character with an optional "*" quantifier; SyntaxError ("Nothing to
\* repeat") when a "*" follows no atom or a quantifier.
RECURSIVE ParseFrom(_, _, _)
ParseFrom(term, i, atoms) ==
    IF i > Len(term) THEN [error |-> FALSE, atoms |-> atoms]
    ELSE IF term[i] = "*"
         THEN IF atoms = <<>> \/ atoms[Len(atoms)].star
              THEN SyntaxError
              ELSE ParseFrom(term, i + 1,
                     [atoms EXCEPT ![Len(atoms)].star = TRUE])
         ELSE ParseFrom(term, i + 1,
                Append(atoms, [ch |-> term[i], star |-> FALSE]))

RegExpCompile(term) == ParseFrom(term, 1, <<>>)

\* One atom against one character; ignoreCase is the 'i' flag.
AtomMatches(atom, c, ignoreCase) ==
    \/ atom.ch = "."
    \/ atom.ch = c
    \/ ignoreCase /\ LowerChar(atom.ch) = LowerChar(c)

SetMin(S) == CHOOSE x \in S : \A y \in S : x <= y
SetMax(S) == CHOOSE x \in S : \A y \in S : x >= y

\* Number of consecutive characters from position i that the atom matches.
RunLength(atom, s, i, ignoreCase) ==
    LET stops == {j \in i..Len(s) :
                    j = Len(s) \/ ~AtomMatches(atom, s[j + 1], ignoreCase)}
    IN  SetMin(stops) - i

\* Backtracking match of atoms k.. at position i: the end position of the
\* first match in priority order (a starred atom takes the longest
\* repetition after which the rest of the pattern matches), or -1.
RECURSIVE MatchAt(_, _, _, _, _)
MatchAt(atoms, k, s, i, ignoreCase) ==
    IF k > Len(atoms) THEN i
    ELSE IF atoms[k].star
         THEN LET n == RunLength(atoms[k], s, i, ignoreCase)
                  fits == {j \in 0..n :
                             MatchAt(atoms, k + 1, s, i + j, ignoreCase) # -1}
              IN  IF fits = {} THEN -1
                  ELSE MatchAt(atoms, k + 1, s, i + SetMax(fits), ignoreCase)
         ELSE IF i < Len(s) /\ AtomMatches(atoms[k], s[i + 1], ignoreCase)
              THEN MatchAt(atoms, k + 1, s, i + 1, ignoreCase)
              ELSE -1

\* regex.exec(s) of a global RegExp: the leftmost match starting at or
\* after `from`, or NoMatch.
RegExpExec(atoms, s, from, ignoreCase) ==
    LET starts == {i \in from..Len(s) : MatchAt(atoms, 1, s, i, ignoreCase) # -1}
    IN  IF starts = {} THEN NoMatch
        ELSE [index |-> SetMin(starts),
              end |-> MatchAt(atoms, 1, s, SetMin(starts), ignoreCase)]

----------------------------------------------------------------------------
(* Scoring, snippets, ordering *)

\* A relevance score is the exact rational num / den (den >= 1); the code
\* computes the same quotient in floating point.
ScoreLess(x, y) == x.num * y.den < y.num * x.den
ScoreEq(x, y) == x.num * y.den = y.num * x.den

\* Variant: the match count is not divided by the number of terms.
RelevanceScore_NoDivide(count, termCount) ==
    [num |-> Min(100, count * 25), den |-> 1]

\* Variant: the quotient is not clamped to 100.
RelevanceScore_NoClamp(count, termCount) ==
    [num |-> count * 25, den |-> termCount]

\* Math.min(100, (matchCount / termCount) * 25)
RelevanceScore(count, termCount) ==
    [num |-> Min(100 * termCount, count * 25), den |-> termCount]

Ellipsis == <<".", ".", ".">>
maxSnippets == 3
snippetLength == 150
snippetPad == 20

\* Variant: the window is not widened by the 20 characters on each side.
SnippetText_NoPad(text, pos, len) ==
    LET start == Max(0, pos - len \div 2)
        end == Min(Len(text), pos + len \div 2)
    IN  Trim(Substring(text, start, end))

\* The window text of extractSnippets for one match position.
SnippetText(text, pos, len) ==
    LET start == Max(0, pos - len \div 2)
        end == Min(Len(text), pos + len \div 2)
    IN  Trim(Substring(text, Max(0, start - snippetPad),
                             Min(Len(text), end + snippetPad)))

\* Variant: an array `push`, which keeps a value that is already present.
SetAdd_Push(seq, v) == Append(seq, v)

\* Set.add in insertion order: a value already present is not added again.
SetAdd(seq, v) ==
    IF \E i \in 1..Len(seq) : seq[i] = v THEN seq ELSE Append(seq, v)

RECURSIVE SnippetsFrom(_, _, _, _, _)
SnippetsFrom(text, positions, len, i, acc) ==
    IF i > Len(positions) THEN acc
    ELSE LET snippet == SnippetText(text, positions[i], len)
         IN  SnippetsFrom(text, positions, len, i + 1,
                IF Len(snippet) > 0
                THEN SetAdd(acc, Ellipsis \o snippet \o Ellipsis)
                ELSE acc)

\* extractSnippets(text, positions, snippetLength)
ExtractSnippets(text, positions, len) ==
    SnippetsFrom(text, SubSeq(positions, 1, Min(maxSnippets, Len(positions))),
                 len, 1, <<>>)

\* Array.prototype.sort with the comparator b.relevanceScore -
\* a.relevanceScore: descending, and stable (ECMAScript 2019), so r goes
\* before the first element whose score is strictly smaller.
\* Variant: the comparator a.relevanceScore - b.relevanceScore (ascending).
RECURSIVE InsertSorted_Ascending(_, _)
InsertSorted_Ascending(sorted, r) ==
    IF sorted = <<>> THEN <<r>>
    ELSE IF ScoreLess(r.relevanceScore, Head(sorted).relevanceScore)
         THEN <<r>> \o sorted
         ELSE <<Head(sorted)>> \o InsertSorted_Ascending(Tail(sorted), r)

RECURSIVE InsertSorted(_, _)
InsertSorted(sorted, r) ==
    IF sorted = <<>> THEN <<r>>
    ELSE IF ScoreLess(Head(sorted).relevanceScore, r.relevanceScore)
         THEN <<r>> \o sorted
         ELSE <<Head(sorted)>> \o InsertSorted(Tail(sorted), r)

RECURSIVE SortFrom(_, _, _)
SortFrom(rs, i, acc) ==
    IF i > Len(rs) THEN acc ELSE SortFrom(rs, i + 1, InsertSorted(acc, rs[i]))

SortByRelevance(rs) == SortFrom(rs, 1, <<>>)

----------------------------------------------------------------------------
(* Tag Store *)

\* What localStorage.getItem returns for a key: null when the key is not
\* stored, else the stored text. A text written by JSON.stringify is held
\* as the tag list it encodes (JSON.parse gives back a list of tags with the
\* same id, name and color in the same order); a text that was not written
\* by this code is the empty string or a text JSON.parse rejects.
Null == [kind |-> "null", tags |-> <<>>]
Json(ts) == [kind |-> "json", tags |-> ts]
EmptyText == [kind |-> "empty", tags |-> <<>>]
CorruptText == [kind |-> "corrupt", tags |-> <<>>]

\* `stored ? ... : ...`: null and the empty string are falsy
Truthy(stored) == stored.kind \notin {"null", "empty"}

\* getDocumentTags(docId) raises: getItem raises, or the stored text is
\* truthy and JSON.parse raises a SyntaxError on it.
GetDocumentTagsThrows(med, st, docId) ==
    \/ med = "readFails"
    \/ Truthy(st[docId]) /\ st[docId].kind = "corrupt"

\* getDocumentTags(docId): `stored ? JSON.parse(stored) : []`
GetDocumentTags(st, docId) ==
    IF Truthy(st[docId]) THEN st[docId].tags ELSE <<>>

\* localStorage.getItem leaves the stored records as they are.
\* Variant: a read that stores an empty list for a key that is not stored.
StoreAfterRead_Materialize(st, docId) ==
    IF st[docId].kind = "null" THEN [st EXCEPT ![docId] = Json(<<>>)] ELSE st

StoreAfterRead(st, docId) == st

\* Variant: `tags.every(...)`, every filter name must be carried.
HasMatchingTag_Every(filter, docTags) ==
    \A i \in 1..Len(filter) : \E j \in 1..Len(docTags) :
        docTags[j].name = filter[i]

\* tags.some(tag => docTags.some(dt => dt.name === tag))
HasMatchingTag(filter, docTags) ==
    \E i \in 1..Len(filter) : \E j \in 1..Len(docTags) :
        docTags[j].name = filter[i]

----------------------------------------------------------------------------
(* Inputs *)

DocIds == 1..MaxDocs

MakeDoc(i, content) == [id |-> i, name |-> i, content |-> content]

\* The collections of at most n documents with contents from cs; the id of
\* a document is its position.
CollectionsOf(cs, n) ==
    UNION {{[i \in 1..k |-> MakeDoc(i, c[i])] : c \in [1..k -> cs]} : k \in 0..n}

Tag(id, name) == [id |-> id, name |-> name, color |-> "#3b82f6"]

\* Spec: no document or one document, every query. The content is a run of
\* "a" or a short string over ContentChars.
Runs == {Run("a", n) : n \in 0..MaxRunLen}

Contents == Runs \cup Strings(ContentChars, MaxContentLen)

Collections == CollectionsOf(Contents, 1)

Queries == Strings(QueryChars, MaxQueryLen)

Stores == {[d \in DocIds |-> r] : r \in {Null, Json(<<Tag("t1", "fin")>>)}}

Filters == {<<>>, <<"fin">>}

\* SpecRank: several documents that differ in their number of matches,
\* queries of the letter "a" and whitespace.
RankCollections == CollectionsOf(Runs, MaxDocs)

RankQueries == Strings({"a", " "}, MaxRankQueryLen)

\* SpecTags: several documents, the record of each document and the filter
\* vary; one-character contents and short queries.
TagRecords ==
    {Null, Json(<<>>), Json(<<Tag("t1", "fin")>>), Json(<<Tag("t3", "Fin")>>),
     Json(<<Tag("t2", "hr"), Tag("t1", "fin")>>)}

TagStores == [DocIds -> TagRecords]

TagFilters == {<<>>, <<"fin">>, <<"hr">>, <<"hr", "fin">>}

TagCollections == CollectionsOf({<<>>, <<"a">>}, MaxDocs)

TagQueries == Strings(QueryChars, MaxTagQueryLen)

----------------------------------------------------------------------------
(* highlightKeywords *)

\* The replacement text before and after `$1` (line 88)
MarkOpen ==
    <<
      "<", "m", "a", "r", "k", " ", "s", "t", "y", "l", "e", "=",
      "\"", "b", "a", "c", "k", "g", "r", "o", "u", "n", "d", "-",
      "c", "o", "l", "o", "r", ":", " ", "#", "f", "b", "b", "f",
      "2", "4", ";", " ", "p", "a", "d", "d", "i", "n", "g", ":",
      " ", "2", "p", "x", " ", "4", "p", "x", ";", " ", "b", "o",
      "r", "d", "e", "r", "-", "r", "a", "d", "i", "u", "s", ":",
      " ", "3", "p", "x", ";", "\"", ">" >>

MarkClose == <<"<", "/", "m", "a", "r", "k", ">">>

\* One iteration of the matching loop of String.prototype.replace with a
\* global regex: the next match is wrapped and appended after the text
\* skipped since the previous match (group 1 is the whole match), and the
\* scan steps one character forward after an empty match.
ReplaceStep(atoms, s, st) ==
    LET match == RegExpExec(atoms, s, st.lastIndex, TRUE)
    IN  IF st.done \/ match = NoMatch
        THEN [st EXCEPT !.done = TRUE]
        ELSE [done |-> FALSE,
              lastIndex |-> IF match.end = match.index
                            THEN match.end + 1 ELSE match.end,
              nextSource |-> match.end,
              out |-> st.out \o Substring(s, st.nextSource, match.index)
                             \o MarkOpen
                             \o Substring(s, match.index, match.end)
                             \o MarkClose]

\* At most n iterations of the loop, split in halves; the second half is
\* not entered once the loop has ended.
RECURSIVE ReplaceSteps(_, _, _, _)
ReplaceSteps(atoms, s, n, st) ==
    IF n = 0 THEN st
    ELSE IF n = 1 THEN ReplaceStep(atoms, s, st)
    ELSE LET half == ReplaceSteps(atoms, s, n \div 2, st)
         IN  IF half.done THEN half
             ELSE ReplaceSteps(atoms, s, n - n \div 2, half)

\* text.replace(regex, MarkOpen + '$1' + MarkClose): the loop ends within
\* s.length + 2 iterations, since every iteration moves lastIndex forward.
ReplaceAll(atoms, s) ==
    LET st == ReplaceSteps(atoms, s, Len(s) + 2,
                  [done |-> FALSE, lastIndex |-> 0, nextSource |-> 0,
                   out |-> <<>>])
    IN  st.out \o Substring(s, st.nextSource, Len(s))

HighlightIdle ==
    /\ hText = <<>>
    /\ hQuery = <<>>
    /\ hpc = "idle"
    /\ hTerms = <<>>
    /\ hIdx = 0
    /\ highlightedText = <<>>

\* line 79: the value of the early return.
\* Variant: the early return gives the lower-cased text.
EarlyReturn_Lowered(text) == ToLowerCase(text)

EarlyReturn(text) == text

\* lines 79-82: the early return, else tokenize
HBegin ==
    /\ hpc = "call"
    /\ IF IsBlank(hQuery)
       THEN /\ highlightedText' = EarlyReturn(hText)
            /\ hpc' = "done"
            /\ UNCHANGED <<hTerms, hIdx>>
       ELSE /\ highlightedText' = hText
            /\ hTerms' = Tokenize(hQuery)
            /\ hIdx' = 1
            /\ hpc' = "pass"
    /\ UNCHANGED <<hText, hQuery, searchVars,
                   tagVars, displayed, otherVars>>

\* line 86: the pass of a term works on the output of the pass before it.
\* Variant: every pass works on the text argument.
PassInput_Original(text, current) == text

PassInput(text, current) == current

\* lines 84-90: the pass of one term; `new RegExp` throws on a bad pattern
HPass ==
    /\ hpc = "pass"
    /\ hIdx <= Len(hTerms)
    /\ LET regex == RegExpCompile(hTerms[hIdx])
       IN  IF regex.error
           THEN /\ hpc' = "threw"
                /\ UNCHANGED <<hIdx, highlightedText>>
           ELSE /\ highlightedText' =
                     ReplaceAll(regex.atoms, PassInput(hText, highlightedText))
                /\ hIdx' = hIdx + 1
                /\ UNCHANGED hpc
    /\ UNCHANGED <<hText, hQuery, hTerms, searchVars,
                   tagVars, displayed, otherVars>>

\* line 92
HReturn ==
    /\ hpc = "pass"
    /\ hIdx > Len(hTerms)
    /\ hpc' = "done"
    /\ UNCHANGED <<hText, hQuery, hTerms, hIdx, highlightedText, searchVars,
                   tagVars, displayed, otherVars>>

HNext == HBegin \/ HPass \/ HReturn

----------------------------------------------------------------------------
(* Tag operations *)

NoCall == [op |-> "none", docId |-> 0, tagId |-> "", threw |-> FALSE,
           wrote |-> FALSE, value |-> <<>>]

TagIdle ==
    /\ medium = "ok"
    /\ tcall = NoCall
    /\ recorded = {}
    /\ created = <<>>

\* The call record of an operation on document d and tag id
Call(op, d, id, threw, wrote, value) ==
    [op |-> op, docId |-> d, tagId |-> id, threw |-> threw, wrote |-> wrote,
     value |-> value]

\* A synchronous call is not interleaved with a call of searchDocuments
NoSearchRunning == pc \in {"idle", "done", "threw"}

\* localStorage.setItem raises (QuotaExceededError)
SetItemThrows(med) == med = "writeFails"

\* Variant: the guard of tagDocument never finds the id.
HasTagId_Never(ts, id) == FALSE

\* tags.find(t => t.id === tag.id)
HasTagId(ts, id) == \E i \in 1..Len(ts) : ts[i].id = id

\* tags.filter(t => t.id !== tagId)
RemoveTag(ts, id) == SelectSeq(ts, LAMBDA t : t.id # id)

\* The arguments of the explored calls: two tags of the same name with
\* different ids, and two tags of the same id with different names.
TagInputs == {Tag("t1", "fin"), Tag("t2", "fin"), Tag("t2", "hr")}

TagIdInputs == {t.id : t \in TagInputs}

\* lines 124-130
TagDocument ==
    /\ NoSearchRunning
    /\ \E d \in DocIds, tag \in TagInputs :
         LET st == StoreAfterRead(store, d)
             ts == GetDocumentTags(st, d)
         IN  IF GetDocumentTagsThrows(medium, store, d)
             THEN /\ tcall' = Call("tagDocument", d, tag.id, TRUE, FALSE, <<>>)
                  /\ store' = st
                  /\ UNCHANGED recorded
             ELSE IF HasTagId(ts, tag.id)
             THEN /\ tcall' = Call("tagDocument", d, tag.id, FALSE, FALSE, <<>>)
                  /\ store' = st
                  /\ UNCHANGED recorded
             ELSE IF SetItemThrows(medium)
             THEN /\ tcall' = Call("tagDocument", d, tag.id, TRUE, FALSE, <<>>)
                  /\ store' = st
                  /\ UNCHANGED recorded
             ELSE /\ tcall' = Call("tagDocument", d, tag.id, FALSE, TRUE, <<>>)
                  /\ store' = [st EXCEPT ![d] = Json(Append(ts, tag))]
                  /\ recorded' = recorded \cup {tag.id}
    /\ UNCHANGED <<medium, created, displayed, highlightVars,
                   otherVars>>
    /\ UNCHANGED <<documents, query, tags, pc, queryTerms, docIdx, termIdx,
                   lastIndex, matchCount, matchPositions, results, storeReads,
                   matcherRan, docLog>>

\* lines 135-139: the filtered list is written whether or not it differs
UntagDocument ==
    /\ NoSearchRunning
    /\ \E d \in DocIds, id \in TagIdInputs :
         LET st == StoreAfterRead(store, d)
             filtered == RemoveTag(GetDocumentTags(st, d), id)
         IN  IF GetDocumentTagsThrows(medium, store, d) \/ SetItemThrows(medium)
             THEN /\ tcall' = Call("untagDocument", d, id, TRUE, FALSE, <<>>)
                  /\ store' = st
             ELSE /\ tcall' = Call("untagDocument", d, id, FALSE, TRUE, <<>>)
                  /\ store' = [st EXCEPT ![d] = Json(filtered)]
    /\ UNCHANGED <<medium, recorded, created, displayed, highlightVars,
                   otherVars>>
    /\ UNCHANGED <<documents, query, tags, pc, queryTerms, docIdx, termIdx,
                   lastIndex, matchCount, matchPositions, results, storeReads,
                   matcherRan, docLog>>

\* lines 144-147, called by itself
GetDocTags ==
    /\ NoSearchRunning
    /\ \E d \in DocIds :
         /\ tcall' =
              IF GetDocumentTagsThrows(medium, store, d)
              THEN Call("getDocumentTags", d, "", TRUE, FALSE, <<>>)
              ELSE Call("getDocumentTags", d, "", FALSE, FALSE,
                        GetDocumentTags(store, d))
         /\ store' = StoreAfterRead(store, d)
    /\ UNCHANGED <<medium, recorded, created, displayed, highlightVars,
                   otherVars>>
    /\ UNCHANGED <<documents, query, tags, pc, queryTerms, docIdx, termIdx,
                   lastIndex, matchCount, matchPositions, results, storeReads,
                   matcherRan, docLog>>

\* The stored keys doc_tags_<id>, and the orders in which localStorage.key(i)
\* can enumerate them (the order is left to the user agent).
StoredKeys(st) == {d \in DOMAIN st : st[d].kind # "null"}

KeyOrders(st) ==
    {o \in [1..Cardinality(StoredKeys(st)) -> StoredKeys(st)] :
        \A i, j \in DOMAIN o : o[i] = o[j] => i = j}

\* Variant: the map is keyed by the name of the tag.
AddTag_ByName(acc, tag) ==
    IF \E i \in 1..Len(acc) : acc[i].name = tag.name THEN acc
    ELSE Append(acc, tag)

\* lines 163-165: `if (!tags.has(tag.id)) tags.set(tag.id, tag)`; the Map
\* keeps the order of first insertion.
AddTag(acc, tag) ==
    IF \E i \in 1..Len(acc) : acc[i].id = tag.id THEN acc
    ELSE Append(acc, tag)

\* line 162: docTags.forEach over one record
RECURSIVE AddTags(_, _, _)
AddTags(acc, ts, j) ==
    IF j > Len(ts) THEN acc ELSE AddTags(AddTag(acc, ts[j]), ts, j + 1)

\* Variant: the loop stops one key early (`i < localStorage.length - 1`).
ScanLength_OffByOne(n) == n - 1

\* line 156: the loop runs while `i < localStorage.length`
ScanLength(n) == n

\* lines 156-169: the loop over the keys, in the order `order`
RECURSIVE CollectTags(_, _, _, _)
CollectTags(st, order, i, acc) ==
    IF i > ScanLength(Len(order)) THEN acc
    ELSE CollectTags(st, order, i + 1,
            IF Truthy(st[order[i]])
            THEN AddTags(acc, st[order[i]].tags, 1)
            ELSE acc)

\* getAllTags raises: getItem raises, or JSON.parse raises on a stored text
GetAllTagsThrows(med, st, order) ==
    \E i \in 1..ScanLength(Len(order)) :
        \/ med = "readFails"
        \/ Truthy(st[order[i]]) /\ st[order[i]].kind = "corrupt"

\* lines 152-172
GetAllTags ==
    /\ NoSearchRunning
    /\ \E order \in KeyOrders(store) :
         tcall' =
            IF GetAllTagsThrows(medium, store, order)
            THEN Call("getAllTags", 0, "", TRUE, FALSE, <<>>)
            ELSE Call("getAllTags", 0, "", FALSE, FALSE,
                      CollectTags(store, order, 1, <<>>))
    /\ UNCHANGED <<medium, recorded, created, displayed, highlightVars,
                   otherVars>>
    /\ UNCHANGED <<documents, query, tags, store, pc, queryTerms, docIdx,
                   termIdx, lastIndex, matchCount, matchPositions, results,
                   storeReads, matcherRan, docLog>>

\* The strings `Math.random().toString(36).substring(2, 11)` can give:
\* nothing makes two calls give different ones.
RandomIds == {"r1", "r2"}

TagNames == {"fin"}

\* lines 177-183, with the default color
CreateTag ==
    /\ NoSearchRunning
    /\ Len(created) < MaxCreated
    /\ \E id \in RandomIds, name \in TagNames :
         /\ created' = Append(created, Tag(id, name))
         /\ tcall' = Call("createTag", 0, id, FALSE, FALSE, <<Tag(id, name)>>)
    /\ UNCHANGED <<medium, recorded, displayed, highlightVars,
                   otherVars>>
    /\ UNCHANGED <<documents, query, tags, store, pc, queryTerms, docIdx,
                   termIdx, lastIndex, matchCount, matchPositions, results,
                   storeReads, matcherRan, docLog>>

TagNext == CreateTag \/ TagDocument \/ UntagDocument \/ GetDocTags \/ GetAllTags

----------------------------------------------------------------------------
(* searchDocuments *)

\* What localStorage.getItem returns for 'gemini-rag-analytics': null, the
\* text of an AnalyticsData (held as its list of events), or a text that
\* JSON.parse rejects
NoData == [kind |-> "null", events |-> <<>>]
StoredData(events) == [kind |-> "json", events |-> events]
CorruptData == [kind |-> "corrupt", events |-> <<>>]

\* The summarization request in flight: none, sent with no chunk received
\* yet ("pending"), or with the assistant message already added
\* ("streaming"); id is its assistantMessageId
NoStream == [phase |-> "none", id |-> 0]

\* The timer of the auto-save effect with the documents and messages its
\* callback closes over
TimerOff == [armed |-> FALSE, documents |-> 0, messages |-> <<>>]

\* What localStorage holds under the session key of the current user
NoSession == [present |-> FALSE, documents |-> 0, messages |-> <<>>]

\* The parts of the program that take no part in a specification stay as
\* they are after construction
RaceIdle ==
    /\ racePc = <<>>
    /\ raceTags = <<>>
    /\ raceArgs = <<>>
    /\ overlapped = FALSE

SidebarIdle ==
    /\ uiDocuments = <<>>
    /\ uiQuery = <<>>
    /\ selectedTags = <<>>
    /\ searchResults = <<>>
    /\ uploads = 0

AnalyticsIdle ==
    /\ eventBuffer = <<>>
    /\ analyticsData = NoData
    /\ tracked = {}
    /\ eventCount = 0

AppIdle ==
    /\ appDocuments = 0
    /\ messages = <<>>
    /\ isTyping = FALSE
    /\ stream = NoStream
    /\ saveTimer = TimerOff
    /\ session = NoSession
    /\ cleared = FALSE
    /\ messageCount = 0

OtherIdle == RaceIdle /\ SidebarIdle /\ AnalyticsIdle /\ AppIdle

SearchIdle ==
    /\ documents = <<>>
    /\ query = <<>>
    /\ tags = <<>>
    /\ store = [d \in DocIds |-> Null]
    /\ pc = "idle"
    /\ queryTerms = <<>>
    /\ docIdx = 0
    /\ termIdx = 0
    /\ lastIndex = 0
    /\ matchCount = 0
    /\ matchPositions = <<>>
    /\ results = <<>>
    /\ storeReads = {}
    /\ matcherRan = FALSE
    /\ docLog = <<>>

\* A call of searchDocuments with its arguments, before its first statement.
InitCall(collections, queries, filters, stores) ==
    /\ documents \in collections
    /\ query \in queries
    /\ tags \in filters
    /\ store \in stores
    /\ pc = "call"
    /\ queryTerms = <<>>
    /\ docIdx = 0
    /\ termIdx = 0
    /\ lastIndex = 0
    /\ matchCount = 0
    /\ matchPositions = <<>>
    /\ results = <<>>
    /\ storeReads = {}
    /\ matcherRan = FALSE
    /\ docLog = <<>>
    /\ HighlightIdle
    /\ TagIdle
    /\ displayed = <<>>
    /\ OtherIdle

\* lines 27-30: the early return, else tokenize and start the forEach
Begin ==
    /\ pc = "call"
    /\ IF IsBlank(query)
       THEN /\ pc' = "done"
            /\ UNCHANGED <<queryTerms, docIdx>>
       ELSE /\ queryTerms' = Tokenize(query)
            /\ docIdx' = 1
            /\ pc' = "doc"
    /\ UNCHANGED <<highlightVars, tagVars, displayed, otherVars>>
    /\ UNCHANGED <<documents, query, tags, store, termIdx, lastIndex,
                   matchCount, matchPositions, results, storeReads,
                   matcherRan, docLog>>

\* lines 32-42: read the document's tags, apply the filter, reset counters;
\* an error raised by getDocumentTags ends the call
VisitDoc ==
    /\ pc = "doc"
    /\ docIdx <= Len(documents)
    /\ LET doc == documents[docIdx]
           docTags == GetDocumentTags(store, doc.id)
       IN  /\ storeReads' = storeReads \cup {doc.id}
           /\ store' = StoreAfterRead(store, doc.id)
           /\ IF GetDocumentTagsThrows(medium, store, doc.id)
              THEN /\ pc' = "threw"
                   /\ UNCHANGED <<docIdx, docLog, termIdx, matchCount,
                                  matchPositions>>
              ELSE IF Len(tags) > 0 /\ ~HasMatchingTag(tags, docTags)
              THEN /\ docIdx' = docIdx + 1
                   /\ docLog' = Append(docLog,
                        [docId |-> doc.id, passed |-> FALSE, matchCount |-> 0])
                   /\ UNCHANGED <<pc, termIdx, matchCount, matchPositions>>
              ELSE /\ matchCount' = 0
                   /\ matchPositions' = <<>>
                   /\ termIdx' = 1
                   /\ pc' = "term"
                   /\ UNCHANGED <<docIdx, docLog>>
    /\ UNCHANGED <<highlightVars, tagVars, displayed, otherVars>>
    /\ UNCHANGED <<documents, query, tags, queryTerms, lastIndex,
                   results, matcherRan>>

\* line 46: new RegExp(term, 'g') for the next term; throws on a bad pattern
CompileTerm ==
    /\ pc = "term"
    /\ termIdx <= Len(queryTerms)
    /\ matcherRan' = TRUE
    /\ IF RegExpCompile(queryTerms[termIdx]).error
       THEN /\ pc' = "threw"
            /\ UNCHANGED lastIndex
       ELSE /\ pc' = "exec"
            /\ lastIndex' = 0
    /\ UNCHANGED <<highlightVars, tagVars, displayed, otherVars>>
    /\ UNCHANGED <<documents, query, tags, store, queryTerms, docIdx, termIdx,
                   matchCount, matchPositions, results, storeReads, docLog>>

\* regex.lastIndex after a successful exec: the end of the match.
\* Variant: the scan resumes one character after the start of the match.
NextLastIndex_AfterStart(match) == match.index + 1

NextLastIndex(match) == match.end

\* lines 48-51: one iteration of `while ((match = regex.exec(content)))`
ExecStep ==
    /\ pc = "exec"
    /\ matchCount < MaxMatchCount
    /\ LET content == ToLowerCase(documents[docIdx].content)
           regex == RegExpCompile(queryTerms[termIdx]).atoms
           match == RegExpExec(regex, content, lastIndex, FALSE)
       IN  IF match = NoMatch
           THEN /\ termIdx' = termIdx + 1
                /\ lastIndex' = 0
                /\ pc' = "term"
                /\ UNCHANGED <<matchCount, matchPositions>>
           ELSE /\ matchCount' = matchCount + 1
                /\ matchPositions' = Append(matchPositions, match.index)
                /\ lastIndex' = NextLastIndex(match)
                /\ UNCHANGED <<termIdx, pc>>
    /\ UNCHANGED <<highlightVars, tagVars, displayed, otherVars>>
    /\ UNCHANGED <<documents, query, tags, store, queryTerms, docIdx,
                   results, storeReads, matcherRan, docLog>>

\* Variant: `if (matchCount >= 0)`.
HasMatches_Always(count) == count >= 0

\* line 54: `if (matchCount > 0)`
HasMatches(count) == count > 0

\* lines 54-68: after the last term, emit a result when something matched
FinishDoc ==
    /\ pc = "term"
    /\ termIdx > Len(queryTerms)
    /\ LET doc == documents[docIdx]
       IN  /\ results' =
                IF HasMatches(matchCount)
                THEN Append(results,
                       [docId |-> doc.id,
                        docName |-> doc.name,
                        matchCount |-> matchCount,
                        snippets |-> ExtractSnippets(doc.content,
                                        matchPositions, snippetLength),
                        relevanceScore |->
                            RelevanceScore(matchCount, Len(queryTerms))])
                ELSE results
           /\ docLog' = Append(docLog,
                [docId |-> doc.id, passed |-> TRUE, matchCount |-> matchCount])
    /\ docIdx' = docIdx + 1
    /\ pc' = "doc"
    /\ UNCHANGED <<highlightVars, tagVars, displayed, otherVars>>
    /\ UNCHANGED <<documents, query, tags, store, queryTerms, termIdx,
                   lastIndex, matchCount, matchPositions, storeReads,
                   matcherRan>>

\* lines 71-72: sort and return
Return ==
    /\ pc = "doc"
    /\ docIdx > Len(documents)
    /\ results' = SortByRelevance(results)
    /\ pc' = "done"
    /\ UNCHANGED <<highlightVars, tagVars, displayed, otherVars>>
    /\ UNCHANGED <<documents, query, tags, store, queryTerms, docIdx, termIdx,
                   lastIndex, matchCount, matchPositions, storeReads,
                   matcherRan, docLog>>

Next == Begin \/ VisitDoc \/ CompileTerm \/ ExecStep \/ FinishDoc \/ Return

Init == InitCall(Collections, Queries, Filters, Stores)

Spec == Init /\ [][Next]_vars

InitTags == InitCall(TagCollections, TagQueries, TagFilters, TagStores)

SpecTags == InitTags /\ [][Next]_vars

InitRank == InitCall(RankCollections, RankQueries, Filters, Stores)

SpecRank == InitRank /\ [][Next]_vars

\* SpecSnippets: one document whose content is longer than a snippet
\* window: a filler character everywhere but at a few spots, which hold the
\* letter searched for (in one letter case) and, at one spot, the letter "c".
MarkSpots == {0, 1, 2, LongLen \div 2, LongLen - 1}

OtherSpot == LongLen \div 4

LongContent(spots, mark, filler, withOther) ==
    [i \in 1..LongLen |->
        IF i - 1 \in spots THEN mark
        ELSE IF withOther /\ i - 1 = OtherSpot THEN "c"
        ELSE filler]

LongContents ==
    {LongContent(spots, mark, filler, withOther) :
        spots \in SUBSET MarkSpots, mark \in {"a", "A"},
        filler \in {" ", "b"}, withOther \in BOOLEAN}

LongCollections == CollectionsOf(LongContents, 1)

LongQueries == {<<"a">>, <<"c", " ", "a">>, <<"a", " ", "c">>}

InitSnippets == InitCall(LongCollections, LongQueries, {<<>>}, {[d \in DocIds |-> Null]})

SpecSnippets == InitSnippets /\ [][Next]_vars

\* A call of highlightKeywords on a short text
HTexts == Strings(ContentChars, MaxTextLen)

\* Queries of two one-letter terms
TwoTermQueries == {<<x, " ", y>> : x, y \in {"a", "b"}}

HQueries == Strings(QueryChars, MaxHighlightQueryLen) \cup TwoTermQueries

InitHighlight ==
    /\ SearchIdle
    /\ TagIdle
    /\ displayed = <<>>
    /\ OtherIdle
    /\ hText \in HTexts
    /\ hQuery \in HQueries
    /\ hpc = "call"
    /\ hTerms = <<>>
    /\ hIdx = 0
    /\ highlightedText = <<>>

SpecHighlight == InitHighlight /\ [][HNext]_vars


\* Calls of the tag operations, starting from an empty Tag Store
InitTagOps ==
    /\ SearchIdle
    /\ HighlightIdle
    /\ TagIdle
    /\ displayed = <<>>
    /\ OtherIdle

SpecTagOps == InitTagOps /\ [][TagNext]_vars


\* Calls on a medium that can fail: localStorage raises on getItem or on
\* setItem, or already holds a text that this code did not write.
Mediums == {"ok", "readFails", "writeFails"}

FaultyRecords == {Null, Json(<<Tag("t1", "fin")>>), EmptyText, CorruptText}

FaultyStores == [DocIds -> FaultyRecords]

FaultyCollections == CollectionsOf({<<"a">>}, 1)

InitFaulty ==
    /\ documents \in FaultyCollections
    /\ query = <<"a">>
    /\ tags \in Filters
    /\ store \in FaultyStores
    /\ medium \in Mediums
    /\ pc = "call"
    /\ queryTerms = <<>>
    /\ docIdx = 0
    /\ termIdx = 0
    /\ lastIndex = 0
    /\ matchCount = 0
    /\ matchPositions = <<>>
    /\ results = <<>>
    /\ storeReads = {}
    /\ matcherRan = FALSE
    /\ docLog = <<>>
    /\ tcall = NoCall
    /\ recorded = {}
    /\ created = <<>>
    /\ displayed = <<>>
    /\ OtherIdle
    /\ HighlightIdle

FaultyNext == Next \/ TagDocument \/ UntagDocument \/ GetDocTags \/ GetAllTags

SpecFaulty == InitFaulty /\ [][FaultyNext]_vars

----------------------------------------------------------------------------
(* The sidebar's display of the results *)

\* highlightKeywords(text, query) as a function: lines 84-90 from term k on
RECURSIVE HighlightFrom(_, _, _)
HighlightFrom(text, terms, k) ==
    IF k > Len(terms) THEN [threw |-> FALSE, text |-> text]
    ELSE LET regex == RegExpCompile(terms[k])
         IN  IF regex.error THEN [threw |-> TRUE, text |-> text]
             ELSE HighlightFrom(ReplaceAll(regex.atoms, text), terms, k + 1)

\* lines 78-93
HighlightKeywords(text, q) ==
    IF IsBlank(q) THEN [threw |-> FALSE, text |-> EarlyReturn(text)]
    ELSE HighlightFrom(text, Tokenize(q), 1)

\* Sidebar.tsx line 143: the `query` prop given to SearchResults
SidebarQuery == <<>>

\* SearchResults.tsx lines 51-58: the first two snippets of every result,
\* each passed through highlightKeywords with the `query` prop q
Displayed(rs, q) ==
    [k \in 1..Len(rs) |->
        [j \in 1..Min(2, Len(rs[k].snippets)) |->
            HighlightKeywords(rs[k].snippets[j], q)]]

\* Sidebar.tsx lines 136-152: the results of the search are rendered once
\* there is one at least
Render ==
    /\ pc = "done"
    /\ Len(results) > 0
    /\ LET shown == Displayed(results, SidebarQuery)
       IN  IF \E k \in 1..Len(shown) : \E j \in 1..Len(shown[k]) :
                 shown[k][j].threw
           THEN /\ pc' = "threw"
                /\ UNCHANGED displayed
           ELSE /\ pc' = "shown"
                /\ displayed' =
                     [k \in 1..Len(shown) |->
                        [j \in 1..Len(shown[k]) |-> shown[k][j].text]]
    /\ UNCHANGED <<highlightVars, tagVars, otherVars>>
    /\ UNCHANGED <<documents, query, tags, store, queryTerms, docIdx, termIdx,
                   lastIndex, matchCount, matchPositions, results, storeReads,
                   matcherRan, docLog>>

DisplayNext == Next \/ Render

SpecDisplay == InitRank /\ [][DisplayNext]_vars

----------------------------------------------------------------------------
(* Two tagDocument calls on one Tag Store, from two browsing contexts *)

\* localStorage is shared by the pages of an origin and tagDocument takes no
\* lock: the getItem of line 145 and the setItem of line 128 of two calls
\* can come in any order
Callers == {1, 2}

RaceRecords == {Null, EmptyText, Json(<<>>), Json(<<Tag("t0", "old")>>)}

RaceStores == [DocIds -> RaceRecords]

\* The two calls name the same document and tags of different ids
RaceArgs ==
    {[docId |-> d, tag |-> pair] :
        d \in DocIds,
        pair \in {p \in TagInputs \X TagInputs : p[1].id # p[2].id}}

\* line 127, `tags.push(tag)`: the list the tag is pushed onto is the one
\* this call read. Variant: the list is read again at the time of the write.
PushedOnto_ReadAgain(local, current) == current

PushedOnto(local, current) == local

\* What the two calls leave alone
raceRest == <<documents, query, tags, pc, queryTerms, docIdx, termIdx,
              lastIndex, matchCount, matchPositions, results, storeReads,
              matcherRan, docLog, medium, tcall, created, displayed,
              highlightVars, sidebarVars, analyticsVars, appVars>>

\* lines 125 and 144-147: the call reads the record into its local `tags`
RaceRead(c) ==
    /\ racePc[c] = "call"
    /\ raceTags' = [raceTags EXCEPT ![c] = GetDocumentTags(store, raceArgs.docId)]
    /\ store' = StoreAfterRead(store, raceArgs.docId)
    /\ racePc' = [racePc EXCEPT ![c] = "read"]
    /\ overlapped' = (overlapped \/ \E o \in Callers \ {c} : racePc[o] = "read")
    /\ UNCHANGED <<raceArgs, recorded>>
    /\ UNCHANGED raceRest

\* lines 126-129: the guard on the local list, then push and setItem
RaceWrite(c) ==
    /\ racePc[c] = "read"
    /\ LET d == raceArgs.docId
           tag == raceArgs.tag[c]
       IN  IF HasTagId(raceTags[c], tag.id)
           THEN UNCHANGED <<store, recorded>>
           ELSE /\ store' =
                     [store EXCEPT ![d] =
                        Json(Append(PushedOnto(raceTags[c],
                                               GetDocumentTags(store, d)),
                                    tag))]
                /\ recorded' = recorded \cup {tag.id}
    /\ racePc' = [racePc EXCEPT ![c] = "done"]
    /\ UNCHANGED <<raceTags, raceArgs, overlapped>>
    /\ UNCHANGED raceRest

RaceNext ==
    \/ \E c \in Callers : RaceRead(c)
    \/ \E c \in Callers : RaceWrite(c)

InitRace ==
    /\ documents = <<>>
    /\ query = <<>>
    /\ tags = <<>>
    /\ store \in RaceStores
    /\ pc = "idle"
    /\ queryTerms = <<>>
    /\ docIdx = 0
    /\ termIdx = 0
    /\ lastIndex = 0
    /\ matchCount = 0
    /\ matchPositions = <<>>
    /\ results = <<>>
    /\ storeReads = {}
    /\ matcherRan = FALSE
    /\ docLog = <<>>
    /\ HighlightIdle
    /\ TagIdle
    /\ displayed = <<>>
    /\ SidebarIdle
    /\ AnalyticsIdle
    /\ AppIdle
    /\ raceArgs \in RaceArgs
    /\ racePc = [c \in Callers |-> "call"]
    /\ raceTags = [c \in Callers |-> <<>>]
    /\ overlapped = FALSE

SpecRace == InitRace /\ [][RaceNext]_vars

----------------------------------------------------------------------------
(* The sidebar: documents, search bar and the results on display *)

\* lines 45-52 of searchService.ts: the offsets `regex.exec` finds for one
\* term from lastIndex `from` on, for a pattern that matches no empty string
RECURSIVE ExecAll(_, _, _)
ExecAll(atoms, content, from) ==
    LET match == RegExpExec(atoms, content, from, FALSE)
    IN  IF match = NoMatch \/ match.end = match.index THEN <<>>
        ELSE <<match.index>> \o ExecAll(atoms, content, NextLastIndex(match))

\* lines 45-52: the offsets of all terms from term k on, in term order
RECURSIVE PositionsFrom(_, _, _)
PositionsFrom(terms, content, k) ==
    IF k > Len(terms) THEN <<>>
    ELSE ExecAll(RegExpCompile(terms[k]).atoms, content, 0)
         \o PositionsFrom(terms, content, k + 1)

\* lines 32-69: the forEach over documents from document i on
RECURSIVE SearchFrom(_, _, _, _, _)
SearchFrom(docs, terms, filter, st, i) ==
    IF i > Len(docs) THEN <<>>
    ELSE LET doc == docs[i]
             docTags == GetDocumentTags(st, doc.id)
             positions == PositionsFrom(terms, ToLowerCase(doc.content), 1)
             rest == SearchFrom(docs, terms, filter, st, i + 1)
         IN  IF Len(filter) > 0 /\ ~HasMatchingTag(filter, docTags) THEN rest
             ELSE IF ~HasMatches(Len(positions)) THEN rest
             ELSE <<[docId |-> doc.id,
                     docName |-> doc.name,
                     matchCount |-> Len(positions),
                     snippets |-> ExtractSnippets(doc.content, positions,
                                                  snippetLength),
                     relevanceScore |->
                         RelevanceScore(Len(positions), Len(terms))]>>
                  \o rest

\* lines 22-73 of searchService.ts as a function, for terms of plain
\* characters and records that can be read (nothing is thrown)
SearchDocuments(docs, q, filter, st) ==
    IF IsBlank(q) THEN <<>>
    ELSE SortByRelevance(SearchFrom(docs, Tokenize(q), filter, st, 1))

\* What the user types, uploads and names in the explored runs
UiQueries == {<<>>, <<" ">>, <<"a">>, <<"b">>}

UiContents == {<<"a">>, <<"b">>}

UiTagNames == {"fin", "hr"}

\* SearchBar.tsx line 16 and line 51: allTags is getAllTags() at mount and
\* after every addNewTag, the only writer of the Tag Store here; the names
\* on the tag buttons are the names stored
AllTagNames(st) ==
    UNION {{st[d].tags[j].name : j \in 1..Len(st[d].tags)} : d \in DocIds}

\* Sidebar.tsx line 123: the search bar is mounted while there is a document
SearchBarMounted(docs) == Len(docs) > 0

\* What the handlers of the sidebar leave alone
sidebarRest == <<documents, query, tags, pc, queryTerms, docIdx, termIdx,
                 lastIndex, matchCount, matchPositions, results, storeReads,
                 matcherRan, docLog, medium, tcall, displayed, highlightVars,
                 raceVars, analyticsVars, appVars>>

\* SearchBar.tsx lines 21-31
HandleSearch ==
    /\ SearchBarMounted(uiDocuments)
    /\ \E searchQuery \in UiQueries :
         /\ uiQuery' = searchQuery
         /\ searchResults' =
              IF ~IsBlank(searchQuery)
              THEN SearchDocuments(uiDocuments, searchQuery, selectedTags,
                                   store)
              ELSE <<>>
    /\ UNCHANGED <<uiDocuments, selectedTags, uploads, store, created, recorded>>
    /\ UNCHANGED sidebarRest

\* SearchBar.tsx lines 33-44
ToggleTag ==
    /\ SearchBarMounted(uiDocuments)
    /\ \E tagName \in AllTagNames(store) :
         LET updated ==
                 IF \E i \in 1..Len(selectedTags) : selectedTags[i] = tagName
                 THEN SelectSeq(selectedTags, LAMBDA t : t # tagName)
                 ELSE Append(selectedTags, tagName)
         IN  /\ selectedTags' = updated
             /\ searchResults' =
                  IF ~IsBlank(uiQuery)
                  THEN SearchDocuments(uiDocuments, uiQuery, updated, store)
                  ELSE searchResults
    /\ UNCHANGED <<uiDocuments, uiQuery, uploads, store, created, recorded>>
    /\ UNCHANGED sidebarRest

\* SearchBar.tsx lines 46-53, with createTag and tagDocument of
\* searchService.ts: the new tag goes to the first document
AddNewTag ==
    /\ SearchBarMounted(uiDocuments)
    /\ Len(created) < MaxCreated
    /\ \E id \in RandomIds, newTagName \in UiTagNames :
         LET tag == Tag(id, newTagName)
             d == uiDocuments[1].id
             ts == GetDocumentTags(store, d)
         IN  /\ created' = Append(created, tag)
             /\ store' =
                  IF HasTagId(ts, tag.id) THEN store
                  ELSE [store EXCEPT ![d] = Json(Append(ts, tag))]
             /\ recorded' =
                  IF HasTagId(ts, tag.id) THEN recorded
                  ELSE recorded \cup {tag.id}
    /\ UNCHANGED <<uiDocuments, uiQuery, selectedTags, searchResults, uploads>>
    /\ UNCHANGED sidebarRest

\* Sidebar.tsx lines 29-73: the new document is appended; its id is new
HandleFileUpload ==
    /\ uploads < MaxDocs
    /\ \E content \in UiContents :
         uiDocuments' = Append(uiDocuments, MakeDoc(uploads + 1, content))
    /\ uploads' = uploads + 1
    /\ UNCHANGED <<uiQuery, selectedTags, searchResults, store, created, recorded>>
    /\ UNCHANGED sidebarRest

\* Sidebar.tsx lines 75-77; with the last document the search bar is
\* unmounted and its state is dropped (line 123)
RemoveDocument ==
    /\ \E i \in 1..Len(uiDocuments) :
         LET left == SelectSeq(uiDocuments,
                               LAMBDA doc : doc.id # uiDocuments[i].id)
         IN  /\ uiDocuments' = left
             /\ uiQuery' = IF SearchBarMounted(left) THEN uiQuery ELSE <<>>
             /\ selectedTags' =
                  IF SearchBarMounted(left) THEN selectedTags ELSE <<>>
    /\ UNCHANGED <<searchResults, uploads, store, created, recorded>>
    /\ UNCHANGED sidebarRest

SidebarNext ==
    \/ HandleSearch
    \/ ToggleTag
    \/ AddNewTag
    \/ HandleFileUpload
    \/ RemoveDocument

\* The application starts with no document and an empty Tag Store
InitSidebar ==
    /\ SearchIdle
    /\ HighlightIdle
    /\ TagIdle
    /\ displayed = <<>>
    /\ OtherIdle

SpecSidebar == InitSidebar /\ [][SidebarNext]_vars

----------------------------------------------------------------------------
(* The analytics service: event buffer, timer flush, persisted events *)

\* analyticsService.ts line 58: `this.eventBuffer.length >= 10`
FlushThreshold == 10

\* lines 147-158, getData: the stored events; the empty data when nothing
\* is stored, when getItem raises or when JSON.parse raises (both caught)
GetData(data, readOk) ==
    IF readOk /\ data.kind = "json" THEN data.events ELSE <<>>

\* lines 163-169, saveData: a setItem that raises is caught and logged
SaveData(data, events, writeOk) ==
    IF writeOk THEN StoredData(events) ELSE data

\* line 131: the buffer is emptied once saveData has returned, whether or
\* not the write succeeded
BufferAfterSave(buffer, writeOk) == <<>>

\* lines 123-135, flush: buffer and stored data after the call
Flushed(buffer, data, readOk, writeOk) ==
    IF Len(buffer) = 0 THEN [buffer |-> buffer, data |-> data]
    ELSE [buffer |-> BufferAfterSave(buffer, writeOk),
          data |-> SaveData(data, GetData(data, readOk) \o buffer, writeOk)]

\* What the analytics service leaves alone
analyticsRest == <<searchVars, highlightVars, tagVars, displayed, raceVars,
                   sidebarVars, appVars>>

\* lines 51-61: push, then flush when the buffer holds 10 events
TrackEvent ==
    /\ eventCount < MaxEvents
    /\ eventCount' = eventCount + 1
    /\ tracked' = tracked \cup {eventCount + 1}
    /\ LET pushed == Append(eventBuffer, eventCount + 1)
       IN  IF Len(pushed) >= FlushThreshold
           THEN \E readOk, writeOk \in BOOLEAN :
                  /\ eventBuffer' =
                       Flushed(pushed, analyticsData, readOk, writeOk).buffer
                  /\ analyticsData' =
                       Flushed(pushed, analyticsData, readOk, writeOk).data
           ELSE /\ eventBuffer' = pushed
                /\ UNCHANGED analyticsData
    /\ UNCHANGED analyticsRest

\* lines 140-142: the interval timer calls flush
TimerFlush ==
    /\ \E readOk, writeOk \in BOOLEAN :
         /\ eventBuffer' =
              Flushed(eventBuffer, analyticsData, readOk, writeOk).buffer
         /\ analyticsData' =
              Flushed(eventBuffer, analyticsData, readOk, writeOk).data
    /\ UNCHANGED <<tracked, eventCount>>
    /\ UNCHANGED analyticsRest

\* lines 289-296, clearData: removeItem, then the buffer is emptied; a
\* removeItem that raises is caught before the buffer is touched
ClearData ==
    /\ \E removeOk \in BOOLEAN :
         IF removeOk
         THEN /\ analyticsData' = NoData
              /\ eventBuffer' = <<>>
              /\ tracked' = {}
         ELSE UNCHANGED <<analyticsData, eventBuffer, tracked>>
    /\ UNCHANGED eventCount
    /\ UNCHANGED analyticsRest

AnalyticsNext == TrackEvent \/ TimerFlush \/ ClearData

\* The service is constructed with an empty buffer; the storage holds
\* nothing, an empty data or a text that cannot be parsed
InitAnalytics ==
    /\ SearchIdle
    /\ HighlightIdle
    /\ TagIdle
    /\ displayed = <<>>
    /\ RaceIdle
    /\ SidebarIdle
    /\ AppIdle
    /\ eventBuffer = <<>>
    /\ analyticsData \in {NoData, StoredData(<<>>), CorruptData}
    /\ tracked = {}
    /\ eventCount = 0

SpecAnalytics == InitAnalytics /\ [][AnalyticsNext]_vars

----------------------------------------------------------------------------
(* The application: documents, messages, auto-save and Clear History *)

\* part_002 lines 283-298, the auto-save effect: it runs after every change
\* of documents or messages, its cleanup clears the timer of the previous
\* run, and it sets a new timer when there is a document or a message
AutoSave(docs, msgs) ==
    IF docs > 0 \/ Len(msgs) > 0
    THEN [armed |-> TRUE, documents |-> docs, messages |-> msgs]
    ELSE TimerOff

\* storageService.ts lines 95-121, saveSession: setItem may raise, which
\* the effect's callback catches (part_002 lines 287-291)
SaveSession(current, docs, msgs, writeOk) ==
    IF writeOk
    THEN [present |-> TRUE, documents |-> docs, messages |-> msgs]
    ELSE current

\* What the session handling leaves alone
appRest == <<searchVars, highlightVars, tagVars, displayed, raceVars,
             sidebarVars, analyticsVars>>

\* Sidebar.handleFileUpload through onDocumentsChange = setDocuments
AppUpload ==
    /\ appDocuments < MaxAppDocs
    /\ appDocuments' = appDocuments + 1
    /\ saveTimer' = AutoSave(appDocuments + 1, messages)
    /\ cleared' = FALSE
    /\ UNCHANGED <<messages, isTyping, stream, session, messageCount>>
    /\ UNCHANGED appRest

\* Sidebar.removeDocument through onDocumentsChange = setDocuments
AppRemove ==
    /\ appDocuments > 0
    /\ appDocuments' = appDocuments - 1
    /\ saveTimer' = AutoSave(appDocuments - 1, messages)
    /\ UNCHANGED <<messages, isTyping, stream, session, cleared,
                   messageCount>>
    /\ UNCHANGED appRest

\* part_002 lines 307-331: the user message is added and the request sent
HandleSummarize ==
    /\ ~isTyping
    /\ appDocuments > 0
    /\ messageCount + 2 <= MaxMessages
    /\ messages' = Append(messages, messageCount + 1)
    /\ isTyping' = TRUE
    /\ stream' = [phase |-> "pending", id |-> messageCount + 2]
    /\ messageCount' = messageCount + 2
    /\ saveTimer' = AutoSave(appDocuments, Append(messages, messageCount + 1))
    /\ cleared' = FALSE
    /\ UNCHANGED <<appDocuments, session>>
    /\ UNCHANGED appRest

\* part_002 lines 332-350: a chunk arrives; the first one appends the
\* assistant message to whatever the messages are then, the later ones map
\* over them
StreamChunk ==
    /\ stream.phase \in {"pending", "streaming"}
    /\ LET next == IF stream.phase = "pending"
                   THEN Append(messages, stream.id)
                   ELSE messages
       IN  /\ messages' = next
           /\ saveTimer' = AutoSave(appDocuments, next)
    /\ stream' = [stream EXCEPT !.phase = "streaming"]
    /\ UNCHANGED <<appDocuments, isTyping, session, cleared, messageCount>>
    /\ UNCHANGED appRest

\* part_002 lines 352-354 and 373-375: the stream ends
StreamEnd ==
    /\ stream.phase \in {"pending", "streaming"}
    /\ isTyping' = FALSE
    /\ stream' = NoStream
    /\ UNCHANGED <<appDocuments, messages, saveTimer, session, cleared,
                   messageCount>>
    /\ UNCHANGED appRest

\* part_002 lines 355-375: the stream fails; an error message is appended
StreamError ==
    /\ stream.phase \in {"pending", "streaming"}
    /\ messageCount < MaxMessages
    /\ messages' = Append(messages, messageCount + 1)
    /\ messageCount' = messageCount + 1
    /\ saveTimer' = AutoSave(appDocuments, Append(messages, messageCount + 1))
    /\ isTyping' = FALSE
    /\ stream' = NoStream
    /\ UNCHANGED <<appDocuments, session, cleared>>
    /\ UNCHANGED appRest

\* part_002 line 295: the debounce timer fires and saves what it closed over
TimerFires ==
    /\ saveTimer.armed
    /\ \E writeOk \in BOOLEAN :
         session' = SaveSession(session, saveTimer.documents,
                                saveTimer.messages, writeOk)
    /\ saveTimer' = TimerOff
    /\ UNCHANGED <<appDocuments, messages, isTyping, stream, cleared,
                   messageCount>>
    /\ UNCHANGED appRest

\* part_002 lines 380-395 with storageService.ts lines 215-226, after the
\* user confirmed: a removeItem that raises leaves everything as it is
HandleClearHistory ==
    /\ \E removeOk \in BOOLEAN :
         IF removeOk
         THEN /\ session' = NoSession
              /\ appDocuments' = 0
              /\ messages' = <<>>
              /\ saveTimer' = AutoSave(0, <<>>)
              /\ cleared' = TRUE
         ELSE UNCHANGED <<session, appDocuments, messages, saveTimer, cleared>>
    /\ UNCHANGED <<isTyping, stream, messageCount>>
    /\ UNCHANGED appRest

AppNext ==
    \/ AppUpload
    \/ AppRemove
    \/ HandleSummarize
    \/ StreamChunk
    \/ StreamEnd
    \/ StreamError
    \/ TimerFires
    \/ HandleClearHistory

\* part_002 lines 262-280: after the load of a session, here none stored
InitApp ==
    /\ SearchIdle
    /\ HighlightIdle
    /\ TagIdle
    /\ displayed = <<>>
    /\ OtherIdle

SpecApp == InitApp /\ [][AppNext]_vars

----------------------------------------------------------------------------
(* Vocabulary of the properties, stated on the raw arguments *)

AllWhitespace(q) == \A i \in 1..Len(q) : q[i] = " "

\* Positions (1-based) at which a whitespace-delimited term of q starts
TermStarts(q) ==
    {i \in 1..Len(q) : q[i] # " " /\ (i = 1 \/ q[i - 1] = " ")}

RECURSIVE TermEnd(_, _)
TermEnd(q, i) == IF i < Len(q) /\ q[i + 1] # " " THEN TermEnd(q, i + 1) ELSE i

\* The set of distinct lower-cased terms of q
DistinctTerms(q) ==
    {ToLowerCase(SubSeq(q, i, TermEnd(q, i))) : i \in TermStarts(q)}

\* t occurs in s as a plain substring at 0-based position pos
LiteralAt(s, t, pos) ==
    /\ pos + Len(t) <= Len(s)
    /\ \A j \in 1..Len(t) : s[pos + j] = t[j]

\* Occurrences of t in s as a plain substring, scanning left to right and
\* resuming right after each occurrence
RECURSIVE LiteralCount(_, _, _)
LiteralCount(s, t, pos) ==
    IF pos + Len(t) > Len(s) THEN 0
    ELSE IF LiteralAt(s, t, pos)
         THEN 1 + LiteralCount(s, t, pos + Len(t))
         ELSE LiteralCount(s, t, pos + 1)

RECURSIVE SumLiteralCounts(_, _, _)
SumLiteralCounts(s, terms, k) ==
    IF k > Len(terms) THEN 0
    ELSE LiteralCount(s, terms[k], 0) + SumLiteralCounts(s, terms, k + 1)

FilterNames == {tags[i] : i \in 1..Len(tags)}

StoredNames(docId) ==
    {store[docId].tags[j].name : j \in 1..Len(store[docId].tags)}

PassesFilter(docId) ==
    tags = <<>> \/ StoredNames(docId) \cap FilterNames # {}

ResultsOf(docId) == {k \in 1..Len(results) : results[k].docId = docId}

----------------------------------------------------------------------------
(* Properties *)

\* C1: a query that is empty or only whitespace makes searchDocuments return
\* the empty sequence, having read no Tag Store record and built no RegExp.
C1_BlankQueryReturnsEmpty ==
    (pc # "call" /\ AllWhitespace(query)) =>
        /\ pc = "done"
        /\ results = <<>>
        /\ storeReads = {}
        /\ ~matcherRan

C1_Witness ==
    /\ pc = "done"
    /\ query = <<" ", " ">>
    /\ Len(documents) = 1
    /\ tags # <<>>
    /\ store[1].kind = "json"

\* C2: when a call with a non-blank query returns, every document is visited
\* and counted exactly when it passes the tag filter, and the result holds
\* exactly one entry for each document that passes with matchCount >= 1 and
\* none for any other document.
C2_OneResultPerMatchingDocument ==
    (pc = "done" /\ ~AllWhitespace(query)) =>
        /\ Len(docLog) = Len(documents)
        /\ \A i \in 1..Len(documents) :
              /\ docLog[i].docId = documents[i].id
              /\ docLog[i].passed <=> PassesFilter(documents[i].id)
              /\ Cardinality(ResultsOf(documents[i].id)) =
                    IF PassesFilter(documents[i].id) /\ docLog[i].matchCount >= 1
                    THEN 1 ELSE 0
        /\ \A k \in 1..Len(results) :
              /\ results[k].docId \in {documents[i].id : i \in 1..Len(documents)}
              /\ results[k].matchCount >= 1

C2_Witness ==
    /\ pc = "done"
    /\ tags # <<>>
    /\ Len(documents) = 2
    /\ Len(results) = 1
    /\ \E i \in 1..2 : docLog[i].passed /\ docLog[i].matchCount = 0
    /\ \E i \in 1..2 : docLog[i].passed /\ docLog[i].matchCount = 1

\* C3: the matchCount of every result is the sum over the query terms of the
\* number of plain-substring occurrences of the term in the lower-cased
\* content.
C3_MatchCountIsLiteralCount ==
    pc = "done" =>
        \A k \in 1..Len(results) :
            results[k].matchCount =
                SumLiteralCounts(
                    ToLowerCase(documents[results[k].docId].content),
                    queryTerms, 1)

\* C4 (as claimed): relevanceScore = min(100, (matchCount / termCount) * 25)
\* with termCount the number of distinct terms of the query.
C4_ScoreOverDistinctTerms ==
    pc = "done" =>
        \A k \in 1..Len(results) :
            LET n == Cardinality(DistinctTerms(query))
                r == results[k]
            IN  r.relevanceScore.num * n =
                    Min(100 * n, r.matchCount * 25) * r.relevanceScore.den

\* C4 (amended): relevanceScore = min(100, (matchCount / termCount) * 25)
\* with termCount the number of terms of the query, a repeated term counted
\* each time it occurs.
C4_ScoreOverAllTerms ==
    pc = "done" =>
        \A k \in 1..Len(results) :
            LET n == Cardinality(TermStarts(query))
                r == results[k]
            IN  r.relevanceScore.num * n =
                    Min(100 * n, r.matchCount * 25) * r.relevanceScore.den

C4_Witness ==
    /\ pc = "done"
    /\ results # <<>>
    /\ Cardinality(TermStarts(query)) = 2
    /\ Cardinality(DistinctTerms(query)) = 1

\* C5: every returned relevanceScore lies between 0 and 100 inclusive.
C5_ScoreWithinBounds ==
    pc = "done" =>
        \A k \in 1..Len(results) :
            /\ results[k].relevanceScore.den >= 1
            /\ 0 <= results[k].relevanceScore.num
            /\ results[k].relevanceScore.num <= 100 * results[k].relevanceScore.den

C5_Witness ==
    /\ pc = "done"
    /\ \E k \in 1..Len(results) :
          /\ results[k].matchCount * 25 > 100 * Len(queryTerms)
          /\ results[k].relevanceScore.num = 100 * results[k].relevanceScore.den

\* C6: the returned sequence is in non-increasing order of relevanceScore,
\* and results of equal score are in the order of their documents in the
\* input collection.
C6_SortedDescendingStable ==
    pc = "done" =>
        \A k, l \in 1..Len(results) :
            k < l =>
                /\ ~ScoreLess(results[k].relevanceScore, results[l].relevanceScore)
                /\ ScoreEq(results[k].relevanceScore, results[l].relevanceScore)
                      => results[k].docId < results[l].docId

C6_Witness ==
    /\ pc = "done"
    /\ Len(results) = 2
    /\ results[1].docId > results[2].docId
    /\ ScoreLess(results[2].relevanceScore, results[1].relevanceScore)

\* C7: with a non-empty filter a document passes exactly when one of its
\* recorded tags has a name equal to one of the filter names; a document
\* without recorded tags is never returned.
C7_FilterIsOrOverTagNames ==
    tags # <<>> =>
        /\ \A k \in 1..Len(docLog) :
              docLog[k].passed <=>
                  StoredNames(docLog[k].docId) \cap FilterNames # {}
        /\ \A k \in 1..Len(results) :
              StoredNames(results[k].docId) \cap FilterNames # {}

C7_Witness ==
    /\ pc = "done"
    /\ Len(tags) = 2
    /\ Len(documents) = 2
    /\ documents[1].content = <<"a">>
    /\ documents[2].content = <<"a">>
    /\ query = <<"a">>
    /\ store[1].kind = "null"
    /\ Cardinality(StoredNames(2)) = 1
    /\ Len(results) = 1
    /\ results[1].docId = 2

\* C8: every recorded match position is a position at which one of the query
\* terms occurs in the lower-cased content character for character.
C8_TermsMatchLiterally ==
    pc \in {"exec", "term"} =>
        \A k \in 1..Len(matchPositions) :
            \E t \in 1..Len(queryTerms) :
                LiteralAt(ToLowerCase(documents[docIdx].content),
                          queryTerms[t], matchPositions[k])

\* C9: no call of searchDocuments or highlightKeywords ends by raising an
\* error.
C9_NeverThrows == pc # "threw" /\ hpc # "threw"

\* C10: every call terminates. Between two iterations of the scanning loop
\* only regex.lastIndex changes what regex.exec returns, and exec never
\* moves it back, so the loop ends exactly when every iteration that stays
\* in the loop moves lastIndex forward; the scan then reaches the end of the
\* content after at most content.length + 1 iterations.
C10_ScanAdvances ==
    [][(pc = "exec" /\ pc' = "exec") => lastIndex' > lastIndex]_vars

\* C11: highlightKeywords called with a query that is empty or only
\* whitespace returns its text argument unchanged, whatever the text.
C11_BlankQueryReturnsText ==
    (hpc # "call" /\ hpc # "idle" /\ AllWhitespace(hQuery)) =>
        /\ hpc = "done"
        /\ highlightedText = hText

C11_Witness ==
    /\ hpc = "done"
    /\ hQuery = <<" ", " ">>
    /\ hText = <<"A", "b">>
    /\ highlightedText = <<"A", "b">>


\* Ids of the tags held in the record of document d, with repetitions counted
TagIdsOf(d) == {store[d].tags[j].id : j \in 1..Len(store[d].tags)}

\* C12: after any sequence of tagDocument and untagDocument calls from an
\* empty Tag Store no record holds two tags of the same id; tagDocument
\* called again with an id the record already holds leaves one copy.
C12_TagIdsUnique ==
    \A d \in DocIds :
        \A i, j \in 1..Len(store[d].tags) :
            store[d].tags[i].id = store[d].tags[j].id => i = j

C12_Witness ==
    /\ tcall.op = "tagDocument"
    /\ tcall.tagId = "t2"
    /\ ~tcall.wrote
    /\ ~tcall.threw
    /\ store[tcall.docId].tags = <<Tag("t2", "fin")>>


\* The tags of ts whose id is not id, in their order
RECURSIVE Without(_, _)
Without(ts, id) ==
    IF ts = <<>> THEN <<>>
    ELSE IF Head(ts).id = id THEN Without(Tail(ts), id)
         ELSE <<Head(ts)>> \o Without(Tail(ts), id)

\* C13: a call untagDocument(docId, tagId) that returns leaves in the record
\* of docId the other tags in their order, leaves every other record as it
\* was, and, when the document holds no tag of that id, leaves the whole Tag
\* Store as it was, its set of stored keys included.
C13_UntagRemovesOnlyThatTag ==
    [][(tcall' # tcall /\ tcall'.op = "untagDocument" /\ ~tcall'.threw) =>
          LET d == tcall'.docId
              id == tcall'.tagId
          IN  /\ store'[d].tags = Without(store[d].tags, id)
              /\ \A e \in DocIds \ {d} : store'[e] = store[e]
              /\ id \notin TagIdsOf(d) =>
                    /\ store' = store
                    /\ StoredKeys(store') = StoredKeys(store)]_vars


\* Ids of the tags in a sequence of tags
IdsIn(ts) == {ts[j].id : j \in 1..Len(ts)}

\* Ids held in some record of the Tag Store now
StoredIds == UNION {TagIdsOf(d) : d \in DocIds}

\* C14 (as claimed): getAllTags returns a tag for every tag id that was ever
\* recorded for a document, also when it was since removed from every
\* document.
C14_ReturnsEveryTagEverRecorded ==
    (tcall.op = "getAllTags" /\ ~tcall.threw) =>
        recorded \subseteq IdsIn(tcall.value)

\* C14 (amended): getAllTags returns a tag for every tag id that some
\* document's record holds at the time of the call, and for no other id; a
\* tag that was removed from every document is not returned.
C14_ReturnsEveryTagStored ==
    (tcall.op = "getAllTags" /\ ~tcall.threw) =>
        IdsIn(tcall.value) = StoredIds

C14_Witness ==
    /\ tcall.op = "getAllTags"
    /\ ~tcall.threw
    /\ recorded = {"t1", "t2"}
    /\ StoredIds = {"t2"}
    /\ IdsIn(tcall.value) = {"t2"}
    /\ Cardinality(StoredKeys(store)) = 2


\* C15: any two calls of createTag return tags of different ids, also when
\* the names are the same.
C15_CreatedIdsDistinct ==
    \A i, j \in 1..Len(created) : created[i].id = created[j].id => i = j

\* C16: getAllTags returns exactly one entry for each tag id held in the
\* records, the entry being a tag stored under that id: two tags of the same
\* name and different ids are both returned, and an id held by several
\* documents is returned once.
C16_OneEntryPerStoredId ==
    (tcall.op = "getAllTags" /\ ~tcall.threw) =>
        /\ \A id \in StoredIds :
              Cardinality({k \in 1..Len(tcall.value) : tcall.value[k].id = id}) = 1
        /\ \A k \in 1..Len(tcall.value) :
              \E d \in DocIds : \E j \in 1..Len(store[d].tags) :
                  store[d].tags[j] = tcall.value[k]
        /\ Len(tcall.value) = Cardinality(StoredIds)

C16_Witness ==
    /\ tcall.op = "getAllTags"
    /\ ~tcall.threw
    /\ Len(tcall.value) = 2
    /\ tcall.value[1].name = tcall.value[2].name
    /\ tcall.value[1].id # tcall.value[2].id
    /\ "t1" \in TagIdsOf(1) \cap TagIdsOf(2)


\* The record of document d cannot be read: getItem raises, or the stored
\* text is not JSON (the empty string included)
Unreadable(d) ==
    \/ medium = "readFails"
    \/ store[d].kind \in {"empty", "corrupt"}

\* C17: a failure of the medium while a tag record is read or written
\* reaches the caller as an error. A call of getDocumentTags, tagDocument or
\* untagDocument on a record that cannot be read raises; so does a call of
\* getAllTags when a stored record cannot be read, a call that has to write
\* when the write is rejected, and a tag-filtered searchDocuments at a
\* document whose record cannot be read.
C17_MediumFailuresPropagate ==
    [][/\ (tcall' # tcall /\
           tcall'.op \in {"getDocumentTags", "tagDocument", "untagDocument"} /\
           Unreadable(tcall'.docId))
              => tcall'.threw
       /\ (tcall' # tcall /\ tcall'.op = "getAllTags" /\
           \E d \in StoredKeys(store) : Unreadable(d))
              => tcall'.threw
       /\ (tcall' # tcall /\ medium = "writeFails" /\
           \/ tcall'.op = "untagDocument"
           \/ tcall'.op = "tagDocument" /\ tcall'.tagId \notin TagIdsOf(tcall'.docId))
              => tcall'.threw
       /\ (pc = "doc" /\ docIdx <= Len(documents) /\ tags # <<>> /\
           Unreadable(documents[docIdx].id))
              => pc' = "threw"]_vars


\* C18: no step of a call of searchDocuments changes the documents passed to
\* it (their content, order and fields) or any record of the Tag Store.
C18_SearchIsReadOnly ==
    [][documents' = documents /\ store' = store]_vars

C18_Witness ==
    /\ pc = "done"
    /\ tags # <<>>
    /\ Len(documents) = 1
    /\ documents[1].content = <<"A", "b">>
    /\ storeReads = {1}
    /\ results # <<>>


\* The number of places of html at which the term stands wrapped in the
\* highlight markup, in any letter case
WrappedCount(html, term) ==
    Cardinality({p \in 0..Len(html) :
        LiteralAt(ToLowerCase(html), MarkOpen \o term \o MarkClose, p)})

\* C19: when the sidebar displays results, every occurrence of each query
\* term in each displayed snippet is wrapped in the highlight markup.
C19_DisplayedSnippetsHighlighted ==
    pc = "shown" =>
        \A k \in 1..Len(displayed) : \A j \in 1..Len(displayed[k]) :
            \A t \in 1..Len(queryTerms) :
                WrappedCount(displayed[k][j], queryTerms[t]) >=
                    LiteralCount(ToLowerCase(results[k].snippets[j]),
                                 queryTerms[t], 0)


\* The offsets of the occurrences of the term t in s found by a scan from
\* left to right that resumes right after the end of each occurrence
RECURSIVE ScanOffsets(_, _, _)
ScanOffsets(s, t, pos) ==
    IF pos + Len(t) > Len(s) THEN <<>>
    ELSE IF LiteralAt(s, t, pos)
         THEN <<pos>> \o ScanOffsets(s, t, pos + Len(t))
         ELSE ScanOffsets(s, t, pos + 1)

RECURSIVE OffsetsOfTerms(_, _, _)
OffsetsOfTerms(s, terms, n) ==
    IF n = 0 THEN <<>>
    ELSE OffsetsOfTerms(s, terms, n - 1) \o ScanOffsets(s, terms[n], 0)

\* The query has no character that a regular expression reads as an operator
PlainQuery == \A i \in 1..Len(query) : query[i] \notin {".", "*"}

\* C20: for each term the recorded offsets are those of a left-to-right scan
\* that resumes right after the end of each match: the matches of a term do
\* not overlap and no occurrence that starts at or after the end of the
\* previous match is skipped. Stated for terms of plain characters, once the
\* scan of a term is over.
C20_OffsetsOfResumingScan ==
    (pc = "term" /\ PlainQuery) =>
        matchPositions =
            OffsetsOfTerms(ToLowerCase(documents[docIdx].content),
                           queryTerms, termIdx - 1)

C20_Witness ==
    /\ pc = "term"
    /\ termIdx = 2
    /\ documents[docIdx].content = <<"a", "a", "a">>
    /\ queryTerms = <<<<"a", "a">>>>
    /\ matchPositions = <<0>>


\* The part of w between its first and its last character that is not
\* whitespace
Trimmed(w) ==
    LET inked == {i \in 1..Len(w) : w[i] # " "}
    IN  IF inked = {} THEN <<>> ELSE SubSeq(w, SetMin(inked), SetMax(inked))

\* The window of a content around offset pos: from max(0, pos - 95) up to
\* min(n, pos + 95)
WindowFrom(pos) == IF pos - 95 > 0 THEN pos - 95 ELSE 0

WindowTo(content, pos) ==
    IF pos + 95 < Len(content) THEN pos + 95 ELSE Len(content)

WindowOf(content, pos) ==
    [i \in 1..(WindowTo(content, pos) - WindowFrom(pos)) |->
        content[WindowFrom(pos) + i]]

Wrapped(t) == <<".", ".", ".">> \o t \o <<".", ".", ".">>

\* The offsets the snippets are built from: the first three in discovery order
FirstOffsets == SubSeq(matchPositions, 1, IF Len(matchPositions) < 3
                                          THEN Len(matchPositions) ELSE 3)

\* The candidates of those offsets that are kept: not empty, and different
\* from the candidates of the offsets before
KeptOffsets(content) ==
    {i \in 1..Len(FirstOffsets) :
        /\ Trimmed(WindowOf(content, FirstOffsets[i])) # <<>>
        /\ \A j \in 1..(i - 1) :
              Trimmed(WindowOf(content, FirstOffsets[j])) #
              Trimmed(WindowOf(content, FirstOffsets[i]))}

\* The i-th smallest element of a set of numbers
RECURSIVE Nth(_, _)
Nth(S, i) == IF i = 1 THEN SetMin(S) ELSE Nth(S \ {SetMin(S)}, i - 1)

\* C21: the snippets of a result are built from the first 3 match offsets in
\* discovery order only: one snippet for each of those offsets whose
\* candidate is not empty and differs from the candidates before it, in the
\* order of the offsets; so at most 3, pairwise different, and no snippet
\* comes from a fourth or later offset.
C21_SnippetsFromFirstThreeOffsets ==
    (pc = "done" /\ Len(results) = 1) =>
        LET content == documents[1].content
            kept == KeptOffsets(content)
            snippets == results[1].snippets
        IN  /\ Len(snippets) = Cardinality(kept)
            /\ Len(snippets) <= 3
            /\ \A i \in 1..Len(snippets) :
                  snippets[i] =
                     Wrapped(Trimmed(WindowOf(content, FirstOffsets[Nth(kept, i)])))
            /\ \A i, j \in 1..Len(snippets) :
                  snippets[i] = snippets[j] => i = j

C21_Witness ==
    /\ pc = "done"
    /\ Len(results) = 1
    /\ Len(matchPositions) >= 4
    /\ Len(results[1].snippets) = 1
    /\ \E k \in 4..Len(matchPositions) :
          Wrapped(Trimmed(WindowOf(documents[1].content, matchPositions[k])))
             # results[1].snippets[1]
    /\ matchPositions[1] > matchPositions[2]


\* C22: each snippet is "..." + t + "..." where, for one of the offsets pos
\* the snippets are built from, t is the content in its original letter case
\* from max(0, pos - 95) up to min(n, pos + 95) without its leading and
\* trailing whitespace: a contiguous piece of the content of at most 190
\* characters, cut from a window that contains pos. Every such offset whose
\* t is not empty has its snippet.
C22_SnippetIsTrimmedWindow ==
    pc = "done" =>
        \A k \in 1..Len(results) :
            LET content == documents[results[k].docId].content
                snippets == results[k].snippets
            IN  /\ \A i \in 1..Len(snippets) :
                      \E o \in 1..Len(FirstOffsets) :
                          LET pos == FirstOffsets[o]
                              t == Trimmed(WindowOf(content, pos))
                          IN  /\ snippets[i] = Wrapped(t)
                              /\ Len(t) <= 190
                              /\ WindowFrom(pos) <= pos
                              /\ pos < WindowTo(content, pos)
                              /\ \E a \in 1..Len(content) :
                                    t = SubSeq(content, a, a + Len(t) - 1)
                /\ \A o \in 1..Len(FirstOffsets) :
                      LET t == Trimmed(WindowOf(content, FirstOffsets[o]))
                      IN  t # <<>> =>
                            \E i \in 1..Len(snippets) : snippets[i] = Wrapped(t)

C22_Witness ==
    /\ pc = "done"
    /\ Len(results) = 1
    /\ \E i \in 1..Len(results[1].snippets) :
          /\ Len(results[1].snippets[i]) = 196
          /\ results[1].snippets[i][4] = "b"
          /\ \E j \in 1..196 : results[1].snippets[i][j] = "A"
    /\ \E o \in 1..Len(FirstOffsets) :
          /\ WindowFrom(FirstOffsets[o]) > 0
          /\ WindowTo(documents[1].content, FirstOffsets[o]) < Len(documents[1].content)

\* C26: every result returned has at least one snippet.
C26_EveryResultHasSnippet ==
    pc = "done" => \A k \in 1..Len(results) : Len(results[k].snippets) >= 1


\* The terms of q in query order, lower-cased
TermsOf(q) ==
    [i \in 1..Cardinality(TermStarts(q)) |->
        LET start == Nth(TermStarts(q), i)
        IN  ToLowerCase(SubSeq(q, start, TermEnd(q, start)))]

\* The offsets at or after pos at which the term t stands in s, in any
\* letter case
OccurrencesAfter(s, t, pos) ==
    {p \in pos..(Len(s) - Len(t)) : LiteralAt(ToLowerCase(s), t, p)}

\* s from offset pos on, with the occurrences of t wrapped in the highlight
\* markup, taken from left to right without overlap
RECURSIVE WrapFrom(_, _, _)
WrapFrom(s, t, pos) ==
    IF OccurrencesAfter(s, t, pos) = {} THEN SubSeq(s, pos + 1, Len(s))
    ELSE LET p == SetMin(OccurrencesAfter(s, t, pos))
         IN  SubSeq(s, pos + 1, p)
             \o MarkOpen \o SubSeq(s, p + 1, p + Len(t)) \o MarkClose
             \o WrapFrom(s, t, p + Len(t))

WrapLiteral(s, t) == WrapFrom(s, t, 0)

\* The pass for terms[1], then the pass for terms[2] on its output, and so
\* on up to terms[n]; a pass is a call with that term alone as the query
RECURSIVE PassesInOrder(_, _, _)
PassesInOrder(text, terms, n) ==
    IF n = 0 THEN text
    ELSE HighlightKeywords(PassesInOrder(text, terms, n - 1), terms[n]).text

RECURSIVE WrapsInOrder(_, _, _)
WrapsInOrder(text, terms, n) ==
    IF n = 0 THEN text
    ELSE WrapLiteral(WrapsInOrder(text, terms, n - 1), terms[n])

PlainHQuery == \A i \in 1..Len(hQuery) : hQuery[i] \notin {".", "*"}

\* C23: for a query with the terms t1..tk the value returned by
\* highlightKeywords is the pass for t1 applied to the text, then the pass
\* for t2 applied to that output, and so on in query order; the pass of a
\* term of plain characters wraps every occurrence of the term in its input,
\* in any letter case, so a later term also wraps inside what an earlier
\* term wrapped.
C23_PassesComposeInQueryOrder ==
    (hpc = "done" /\ ~AllWhitespace(hQuery)) =>
        LET terms == TermsOf(hQuery)
        IN  /\ highlightedText = PassesInOrder(hText, terms, Len(terms))
            /\ PlainHQuery =>
                  highlightedText = WrapsInOrder(hText, terms, Len(terms))

C23_Witness ==
    /\ hpc = "done"
    /\ hQuery = <<"a", " ", "b">>
    /\ hText = <<"A", "b">>
    /\ Len(highlightedText) > Len(WrapLiteral(WrapLiteral(hText, <<"a">>), <<"b">>)) - 1
    /\ highlightedText # WrapLiteral(hText, <<"b">>)
    /\ \E p \in 0..Len(MarkOpen) :
          LiteralAt(highlightedText, MarkOpen \o <<"b">> \o MarkClose, p)

\* The offsets at which the piece stands in s, exactly as written
IntactAt(s, piece) == {p \in 0..(Len(s) - Len(piece)) : LiteralAt(s, piece, p)}

\* The number of replacements the passes of the plain terms made on the way
\* to the returned text: each one added an opening and a closing tag
RECURSIVE WrapsMade(_, _, _)
WrapsMade(s, terms, k) ==
    IF k = 0 THEN 0
    ELSE LET before == WrapsInOrder(s, terms, k - 1)
         IN  WrapsMade(s, terms, k - 1)
             + (Len(WrapLiteral(before, terms[k])) - Len(before))
               \div (Len(MarkOpen) + Len(MarkClose))

\* C27: in the text highlightKeywords returns for a query of plain
\* characters, every opening and closing tag a pass inserted is still
\* intact: no later pass matched inside inserted markup.
C27_InsertedMarkupStaysIntact ==
    (hpc = "done" /\ ~AllWhitespace(hQuery) /\ PlainHQuery) =>
        LET made == WrapsMade(hText, TermsOf(hQuery), Len(TermsOf(hQuery)))
        IN  /\ Cardinality(IntactAt(highlightedText, MarkOpen)) = made
            /\ Cardinality(IntactAt(highlightedText, MarkClose)) = made


\* C25: a searchDocuments call with an absent or empty tag filter reads no
\* tag record and does not fail on the Tag Store: whatever the records hold
\* and whether or not they can be read, the call returns.
C25_NoFilterNoStoreRead ==
    (tags = <<>> /\ pc # "call") => (storeReads = {} /\ pc # "threw")


\* The ids of the tags recorded for the document of the two calls
RaceIds == IdsIn(GetDocumentTags(store, raceArgs.docId))

BothDone == \A c \in Callers : racePc[c] = "done"

\* C24: two tagDocument calls for one document with tags of different ids,
\* neither recorded before. When both calls have read the record before
\* either writes, the record ends with exactly one of the two tags: the
\* other update is lost. When one call completes before the other reads,
\* the record ends with both tags, in either order of the calls.
C24_LostUpdateOnlyWhenInterleaved ==
    BothDone =>
        LET a == raceArgs.tag[1].id
            b == raceArgs.tag[2].id
        IN  IF overlapped
            THEN (a \in RaceIds) # (b \in RaceIds)
            ELSE {a, b} \subseteq RaceIds

C24_Witness ==
    /\ BothDone
    /\ overlapped
    /\ raceArgs.tag[1].id \notin RaceIds
    /\ raceArgs.tag[2].id \in RaceIds
    /\ "t0" \in RaceIds


UiDocIds == {uiDocuments[i].id : i \in 1..Len(uiDocuments)}

\* C28: every result on display refers to a document of the collection, and
\* the results on display are what searchDocuments returns for the current
\* documents, query and selected tags.
C28_DisplayedResultsAreCurrent ==
    /\ \A k \in 1..Len(searchResults) : searchResults[k].docId \in UiDocIds
    /\ searchResults =
         SearchDocuments(uiDocuments, uiQuery, selectedTags, store)


\* How many times the event e stands in the sequence
Copies(events, e) == Cardinality({i \in 1..Len(events) : events[i] = e})

\* C29: every event tracked since the last clearData stands exactly once in
\* the buffer or in the persisted events, never in neither and never twice.
C29_NoEventLostOrDuplicated ==
    \A e \in tracked :
        Copies(eventBuffer, e) + Copies(analyticsData.events, e) = 1


\* C30: from a successful Clear History until the next upload or request,
\* no session of the current user is stored.
C30_SessionStaysAbsentAfterClear ==
    cleared => ~session.present


====
